---- MODULE Spec2Model ----
(***************************************************************************)
(* A model of the exprs crate: expression nodes (constants, inputs, binary *)
(* operator nodes, eager and lazy caches), the reverse-dependency vectors  *)
(* that hold weak references to the caches to notify, and the synchronous, *)
(* depth-first propagation that InputNode::set starts.                     *)
(*                                                                         *)
(* The heap is an arena: node n is heap[n], a Ref<T> is the index n, a     *)
(* WeakRef<T> is the index too and upgrades only while the node is         *)
(* strongly reachable from a handle the client holds.  The nested calls    *)
(* update_all -> update -> update_all are the call stack `stack`: one      *)
(* frame per RevdepVec::update_all in progress, with the position of its   *)
(* retain loop.                                                            *)
(***************************************************************************)
EXTENDS Integers, Sequences, FiniteSets, TLC

\* Bounds of the model: the nodes the client builds (fewer where it also
\* drops handles), the handles it drops and the values it passes.
MaxNodes == 4
SmallNodes == 3
MaxDrops == 1
MaxVal == 1
MaxRevdeps == 3
MaxInputs == 1
MaxOps == 1
MaxLazy == 1

\* One node more than MaxNodes: the smallest graphs in which two caches of
\* one input meet again in a third cache have five nodes.
WideNodes == MaxNodes + 1

\* Two nodes more than MaxNodes: the smallest graphs in which a lazy cache is
\* read while a cache below it is still to be notified have six nodes (an
\* input, two caches of it, an operator node, the lazy cache, its reader).
DeepNodes == MaxNodes + 2

\* Values a client passes to Ref::new, InputNode::new and InputNode::set.
Values == 0..MaxVal

\* The operator node the model builds (AddNode, one of the ten that
\* create_node_for_binary_op! generates from the same pattern).
OpNames == {"add"}

VARIABLES
    heap,     \* the nodes allocated so far, by index
    handles,  \* the nodes the client holds a Ref to
    stack,    \* the RevdepVec::update_all calls in progress, innermost last
    call,     \* the InputNode::set call in progress or just returned
    written   \* per node, the value the client last passed for it

vars == <<heap, handles, stack, call, written>>

----------------------------------------------------------------------------
\* Sequence helpers.

Last(s) == s[Len(s)]

Front(s) == SubSeq(s, 1, Len(s) - 1)

RemoveAt(s, i) == SubSeq(s, 1, i - 1) \o SubSeq(s, i + 1, Len(s))

Range(s) == {s[i] : i \in 1..Len(s)}

Count(s, x) == Cardinality({i \in 1..Len(s) : s[i] = x})

----------------------------------------------------------------------------
\* Nodes.

\* Ref::new(v) of a primitive value: impl_node_for!.
ConstNode(v) == [kind |-> "const", value |-> v]

\* The nodes are over i8.  Add and Sub of the std::ops traits wrap in a
\* release build; the values within the bounds stay far from the limits,
\* where every build agrees.
Wrap8(x) == ((x + 128) % 256) - 128

ApplyOp(name, a, b) ==
    CASE name = "add" -> Wrap8(a + b)
      [] name = "sub" -> Wrap8(a - b)

\* The nodes a node holds a Ref to.
Children(h, n) ==
    CASE h[n].kind = "op" -> {h[n].lhs, h[n].rhs}
      [] h[n].kind \in {"cached", "lazy"} -> {h[n].inner_node}
      [] OTHER -> {}

RECURSIVE ReachFrom(_, _)
ReachFrom(h, S) ==
    LET T == S \cup UNION {Children(h, n) : n \in S}
    IN IF T = S THEN S ELSE ReachFrom(h, T)

\* The Rust type of a node, in prefix form: CachedNode<T> wraps a Ref<T>, so
\* a cache can only be given an inner node of the type it was built over.
RECURSIVE TypeOf(_, _)
TypeOf(h, n) ==
    CASE h[n].kind = "const" -> <<"i8">>
      [] h[n].kind = "input" -> <<"InputNode">>
      [] h[n].kind = "op" ->
            <<h[n].op>> \o TypeOf(h, h[n].lhs) \o TypeOf(h, h[n].rhs)
      [] h[n].kind = "cached" -> <<"CachedNode">> \o TypeOf(h, h[n].inner_node)
      [] h[n].kind = "lazy" -> <<"LazyCachedNode">> \o TypeOf(h, h[n].inner_node)

\* The nodes with a strong count above zero: those a client handle reaches
\* through Ref fields.  RevdepVec entries are WeakRefs and do not count.
Live(h, hs) == ReachFrom(h, hs)

\* An upgrade that succeeds for an expired node: a vector of strong refs.
WeakRef_upgrade_Strong(h, hs, w) == <<w>>

\* WeakRef::upgrade: Some(node) while the node is alive, None after.
WeakRef_upgrade(h, hs, w) == IF w \in Live(h, hs) THEN <<w>> ELSE <<>>

HasRevdeps(h, n) == h[n].kind \in {"input", "cached", "lazy"}

----------------------------------------------------------------------------
\* Node::eval.  An evaluation returns the value, the heap it leaves (a dirty
\* lazy cache it passes through is populated) and the calls it made, in
\* order, each as <<caller, node evaluated>> (caller 0: the client).

RECURSIVE eval(_, _, _)

\* A primitive that evaluates to the default value instead of itself.
impl_node_eval_Default(h, n, from) ==
    [heap |-> h, val |-> 0, trace |-> << <<from, n>> >>]

\* impl_node_for!: a primitive evaluates to itself.
impl_node_eval(h, n, from) ==
    [heap |-> h, val |-> h[n].value, trace |-> << <<from, n>> >>]

InputNode_eval(h, n, from) ==
    [heap |-> h, val |-> h[n].value, trace |-> << <<from, n>> >>]

\* An operator node that applies the method to its lhs twice.
OpNode_eval_LhsTwice(h, n, from) ==
    LET l == eval(h, h[n].lhs, n)
    IN [heap |-> l.heap,
        val |-> ApplyOp(h[n].op, l.val, l.val),
        trace |-> << <<from, n>> >> \o l.trace]

\* self.lhs.eval().$method(self.rhs.eval()): lhs first, then rhs.
OpNode_eval(h, n, from) ==
    LET l == eval(h, h[n].lhs, n)
        r == eval(l.heap, h[n].rhs, n)
    IN [heap |-> r.heap,
        val |-> ApplyOp(h[n].op, l.val, r.val),
        trace |-> << <<from, n>> >> \o l.trace \o r.trace]

\* An eager cache that brings its stored value up to date when it is read.
CachedNode_eval_Refresh(h, n, from) ==
    LET new == eval(h, h[n].inner_node, n)
    IN [heap |-> [new.heap EXCEPT ![n].cached_value = new.val],
        val |-> new.val,
        trace |-> << <<from, n>> >> \o new.trace]

\* self.cached_value.borrow().clone()
CachedNode_eval(h, n, from) ==
    [heap |-> h, val |-> h[n].cached_value, trace |-> << <<from, n>> >>]

\* A lazy eval that forgets to store what it computed.
LazyCachedNode_eval_NoStore(h, n, from) ==
    IF h[n].cached_value # <<>>
    THEN [heap |-> h, val |-> h[n].cached_value[1], trace |-> << <<from, n>> >>]
    ELSE LET new == eval(h, h[n].inner_node, n)
         IN [heap |-> new.heap, val |-> new.val,
             trace |-> << <<from, n>> >> \o new.trace]

\* cached_value is an Option: <<>> is None, <<v>> is Some(v).
LazyCachedNode_eval(h, n, from) ==
    IF h[n].cached_value # <<>>
    THEN [heap |-> h, val |-> h[n].cached_value[1], trace |-> << <<from, n>> >>]
    ELSE LET new == eval(h, h[n].inner_node, n)
         IN [heap |-> [new.heap EXCEPT ![n].cached_value = <<new.val>>],
             val |-> new.val,
             trace |-> << <<from, n>> >> \o new.trace]

eval(h, n, from) ==
    CASE h[n].kind = "const" -> impl_node_eval(h, n, from)
      [] h[n].kind = "input" -> InputNode_eval(h, n, from)
      [] h[n].kind = "op" -> OpNode_eval(h, n, from)
      [] h[n].kind = "cached" -> CachedNode_eval(h, n, from)
      [] h[n].kind = "lazy" -> LazyCachedNode_eval(h, n, from)

----------------------------------------------------------------------------
\* RevdepVec: a Vec of WeakRefs.

RevdepVec_new == <<>>

\* A vector that puts the new entry first.
RevdepVec_add_revdep_First(vec, revdep) == <<revdep>> \o vec

\* A vector that holds a dependent once however often it registers.
RevdepVec_add_revdep_Unique(vec, revdep) ==
    IF revdep \in Range(vec) THEN vec ELSE Append(vec, revdep)

\* self.0.push(Ref::downgrade(&revdep))
RevdepVec_add_revdep(vec, revdep) == Append(vec, revdep)

\* A removal that stops at the first entry that is revdep.
RevdepVec_remove_revdep_Once(vec, alive, revdep) ==
    LET live == SelectSeq(vec, LAMBDA w : w \in alive)
        at == {i \in 1..Len(live) : live[i] = revdep}
    IN IF at = {} THEN live
       ELSE RemoveAt(live, CHOOSE i \in at : \A j \in at : i <= j)

\* A removal that only purges the expired entries.
RevdepVec_remove_revdep_Kept(vec, alive, revdep) ==
    SelectSeq(vec, LAMBDA w : w \in alive)

\* retain: drops the entries that do not upgrade and those that are revdep.
RevdepVec_remove_revdep(vec, alive, revdep) ==
    SelectSeq(vec, LAMBDA w : w \in alive /\ w # revdep)

\* UpdatingNode::add_revdep / remove_revdep of InputNode, CachedNode and
\* LazyCachedNode: the same body, on the node's own revdeps.
add_revdep(h, n, revdep) ==
    [h EXCEPT ![n].revdeps = RevdepVec_add_revdep(@, revdep)]

remove_revdep(h, hs, n, revdep) ==
    [h EXCEPT ![n].revdeps = RevdepVec_remove_revdep(@, Live(h, hs), revdep)]

----------------------------------------------------------------------------
\* RevdepForwarder.

RECURSIVE forward_add_revdep(_, _, _)
RECURSIVE forward_remove_revdep(_, _, _, _)

\* impl_node_for!: no-ops.
impl_node_forward_add_revdep(h, n, revdep) == h

impl_node_forward_remove_revdep(h, hs, n, revdep) == h

\* impl<T: UpdatingNode> RevdepForwarder for T
UpdatingNode_forward_add_revdep(h, n, revdep) == add_revdep(h, n, revdep)

UpdatingNode_forward_remove_revdep(h, hs, n, revdep) ==
    remove_revdep(h, hs, n, revdep)

\* An operator node that forwards to lhs only.
OpNode_forward_add_revdep_Lhs(h, n, revdep) ==
    forward_add_revdep(h, h[n].lhs, revdep)

\* The operator nodes forward to lhs, then to rhs.
OpNode_forward_add_revdep(h, n, revdep) ==
    forward_add_revdep(forward_add_revdep(h, h[n].lhs, revdep), h[n].rhs, revdep)

OpNode_forward_remove_revdep(h, hs, n, revdep) ==
    forward_remove_revdep(forward_remove_revdep(h, hs, h[n].lhs, revdep),
                          hs, h[n].rhs, revdep)

forward_add_revdep(h, n, revdep) ==
    CASE h[n].kind = "const" -> impl_node_forward_add_revdep(h, n, revdep)
      [] h[n].kind = "op" -> OpNode_forward_add_revdep(h, n, revdep)
      [] OTHER -> UpdatingNode_forward_add_revdep(h, n, revdep)

forward_remove_revdep(h, hs, n, revdep) ==
    CASE h[n].kind = "const" -> impl_node_forward_remove_revdep(h, hs, n, revdep)
      [] h[n].kind = "op" -> OpNode_forward_remove_revdep(h, hs, n, revdep)
      [] OTHER -> UpdatingNode_forward_remove_revdep(h, hs, n, revdep)

----------------------------------------------------------------------------
\* Constructors.  Each returns the heap with the new node at Len(h) + 1.

InputNode_new(h, v) ==
    Append(h, [kind |-> "input", value |-> v, revdeps |-> RevdepVec_new])

OpNode_new(h, name, l, r) ==
    Append(h, [kind |-> "op", op |-> name, lhs |-> l, rhs |-> r])

\* An eager cache that is built with its value but never registered with its
\* inner node.
CachedNode_new_Unregistered(h, inner) ==
    LET value == eval(h, inner, Len(h) + 1)
    IN Append(value.heap, [kind |-> "cached", inner_node |-> inner,
                           cached_value |-> value.val, revdeps |-> RevdepVec_new])

\* Evaluates inner, builds the node, then registers it through inner.
CachedNode_new(h, inner) ==
    LET value == eval(h, inner, Len(h) + 1)
        node == [kind |-> "cached", inner_node |-> inner,
                 cached_value |-> value.val, revdeps |-> RevdepVec_new]
        h1 == Append(value.heap, node)
    IN forward_add_revdep(h1, inner, Len(h1))

\* A lazy cache built the way the eager one is: evaluated at once.
LazyCachedNode_new_Populated(h, inner) ==
    LET value == eval(h, inner, Len(h) + 1)
        node == [kind |-> "lazy", inner_node |-> inner,
                 cached_value |-> <<value.val>>, revdeps |-> RevdepVec_new]
        h1 == Append(value.heap, node)
    IN forward_add_revdep(h1, inner, Len(h1))

\* A lazy cache that is built but never registered with its inner node.
LazyCachedNode_new_Unregistered(h, inner) ==
    Append(h, [kind |-> "lazy", inner_node |-> inner,
               cached_value |-> <<>>, revdeps |-> RevdepVec_new])

LazyCachedNode_new(h, inner) ==
    LET node == [kind |-> "lazy", inner_node |-> inner,
                 cached_value |-> <<>>, revdeps |-> RevdepVec_new]
        h1 == Append(h, node)
    IN forward_add_revdep(h1, inner, Len(h1))

----------------------------------------------------------------------------
\* The stores of InputNode::set and of the update handlers; the update_all
\* that follows each of them is a new frame on the stack.

\* A set that notifies without storing.
InputNode_set_NoStore(h, n, v) == h

\* *self.value.borrow_mut() = value
InputNode_set(h, n, v) == [h EXCEPT ![n].value = v]

\* An update handler that notifies without recomputing.
CachedNode_update_NoStore(h, n) == [heap |-> h, trace |-> <<>>]

\* *self.cached_value.borrow_mut() = self.inner_node.eval()
CachedNode_update(h, n) ==
    LET new == eval(h, h[n].inner_node, n)
    IN [heap |-> [new.heap EXCEPT ![n].cached_value = new.val],
        trace |-> new.trace]

\* An invalidation that recomputes at once, as the eager cache does.
LazyCachedNode_update_Recompute(h, n) ==
    LET new == eval(h, h[n].inner_node, n)
    IN [heap |-> [new.heap EXCEPT ![n].cached_value = <<new.val>>],
        trace |-> new.trace]

\* An invalidation that notifies without clearing.
LazyCachedNode_update_NoClear(h, n) == [heap |-> h, trace |-> <<>>]

\* *self.cached_value.borrow_mut() = None
LazyCachedNode_update(h, n) ==
    [heap |-> [h EXCEPT ![n].cached_value = <<>>], trace |-> <<>>]

\* The rebind of an eager cache (set_inner), its steps up to the store:
\* unregister from the old inner node through forwarding, swap, register
\* with the new inner node through forwarding, recompute and store.  The
\* update_all of the cache's own dependents that ends it is a new frame.
CachedNode_set_inner(h, hs, c, new) ==
    LET h1 == forward_remove_revdep(h, hs, h[c].inner_node, c)
        h2 == [h1 EXCEPT ![c].inner_node = new]
        h3 == forward_add_revdep(h2, new, c)
    IN CachedNode_update(h3, c)

\* UpdateableNode::update, dispatched on the dependent's type.
update(h, n) ==
    IF h[n].kind = "cached" THEN CachedNode_update(h, n)
    ELSE LazyCachedNode_update(h, n)

----------------------------------------------------------------------------
\* The program: a single-threaded client that builds nodes, sets inputs,
\* evaluates nodes and drops its handles.  A call returns before the next
\* one starts.

NumKind(h, ks) == Cardinality({n \in 1..Len(h) : h[n].kind \in ks})

\* Creating a leaf touches no other node, so the client creates its leaves
\* before the nodes over them.
LeavesOnly(h) == NumKind(h, {"op", "cached", "lazy"}) = 0

\* `call` is the call in progress or just returned that works on registries,
\* an InputNode::set, a remove_revdep or a rebind: the node, the argument,
\* every registry as the call found it and, in order, what each pass of an
\* update_all loop did.
Idle == [name |-> "idle", node |-> 0, val |-> 0, before |-> <<>>, log |-> <<>>]

Registries(h) ==
    [n \in 1..Len(h) |-> IF HasRevdeps(h, n) THEN h[n].revdeps ELSE <<>>]

Called(name, n, v) ==
    [name |-> name, node |-> n, val |-> v, before |-> Registries(heap),
     log |-> <<>>]

\* A return from the innermost update_all only, its caller left where it is.
Unwind_Once(h, st) ==
    IF st # <<>> /\ Last(st).pos > Len(h[Last(st).node].revdeps)
    THEN Front(st)
    ELSE st

\* Returns from every update_all whose retain loop is past its last entry.
RECURSIVE Unwind(_, _)
Unwind(h, st) ==
    IF st # <<>> /\ Last(st).pos > Len(h[Last(st).node].revdeps)
    THEN Unwind(h, Front(st))
    ELSE st

\* The eager caches among the nodes of an evaluation whose stored value is
\* not what their inner node evaluates to.
StaleReads(h, trace) ==
    {x \in {trace[i][2] : i \in 1..Len(trace)} :
        /\ h[x].kind = "cached"
        /\ h[x].cached_value # eval(h, h[x].inner_node, x).val}

Init ==
    /\ heap = <<>>
    /\ handles = {}
    /\ stack = <<>>
    /\ call = Idle
    /\ written = <<>>

Ready == call = Idle /\ stack = <<>>

\* The constructor's result goes to the client; v is what the client passed:
\* the value of a leaf, the inner node of a cache (0 for an operator node).
New(h, v) ==
    /\ heap' = h
    /\ handles' = handles \cup {Len(h)}
    /\ written' = Append(written, v)
    /\ UNCHANGED <<stack, call>>

NewConst(max) ==
    \E v \in Values :
        /\ Ready /\ Len(heap) < max /\ LeavesOnly(heap)
        /\ New(Append(heap, ConstNode(v)), v)

NewInput(max) ==
    \E v \in Values :
        /\ Ready /\ Len(heap) < max /\ LeavesOnly(heap)
        /\ New(InputNode_new(heap, v), v)

NewOp(max) ==
    \E name \in OpNames, l \in handles, r \in handles :
        /\ Ready /\ Len(heap) < max
        /\ New(OpNode_new(heap, name, l, r), 0)

NewCached(max) ==
    \E inner \in handles :
        /\ Ready /\ Len(heap) < max
        /\ New(CachedNode_new(heap, inner), inner)

NewLazy(max) ==
    \E inner \in handles :
        /\ Ready /\ Len(heap) < max
        /\ New(LazyCachedNode_new(heap, inner), inner)

\* InputNode::set: the store, then self.revdeps.borrow_mut().update_all().
Set ==
    \E n \in handles, v \in Values :
        /\ Ready /\ heap[n].kind = "input"
        /\ heap' = InputNode_set(heap, n, v)
        /\ stack' = Unwind(heap', <<[node |-> n, pos |-> 1]>>)
        /\ call' = Called("set", n, v)
        /\ written' = [written EXCEPT ![n] = v]
        /\ UNCHANGED handles

\* The registries whose RefCell is borrowed: every update_all in progress
\* holds the borrow_mut() of its registry until it returns.
Borrowed(st) == {st[i].node : i \in 1..Len(st)}

\* A guard that sees only the innermost traversal.
RefCell_borrow_mut_Innermost(st, n) == n # Last(st).node

\* A RefCell that hands out a second exclusive borrow.
RefCell_borrow_mut_Unchecked(st, n) == TRUE

\* self.revdeps.borrow_mut(): whether it succeeds; it panics (BorrowMutError)
\* while the registry is borrowed.
RefCell_borrow_mut(st, n) == n \notin Borrowed(st)

\* RevdepVec::update_all, one pass of its retain closure, in the innermost
\* call.  An entry that upgrades is kept and its update() runs: the store,
\* then the borrow_mut() of the dependent's registry for its own update_all,
\* a new frame, or a panic that ends the program where it is.  An entry that
\* does not upgrade is dropped.  The result is the heap, the stack, what the
\* pass did and whether it panicked.
RevdepVec_update_all(h, hs, st) ==
    LET f == Last(st)
        d == h[f.node].revdeps[f.pos]
    IN IF WeakRef_upgrade(h, hs, d) # <<>>
       THEN LET u == update(h, d)
            IN [heap |-> u.heap,
                stack |-> IF RefCell_borrow_mut(st, d)
                          THEN Append(Append(Front(st), [f EXCEPT !.pos = @ + 1]),
                                      [node |-> d, pos |-> 1])
                          ELSE st,
                fatal |-> ~RefCell_borrow_mut(st, d),
                event |-> [reg |-> f.node, node |-> d, depth |-> Len(st),
                           updated |-> TRUE,
                           stale |-> StaleReads(h, u.trace)]]
       ELSE [heap |-> [h EXCEPT ![f.node].revdeps = RemoveAt(@, f.pos)],
             stack |-> st,
             fatal |-> FALSE,
             event |-> [reg |-> f.node, node |-> d, depth |-> Len(st),
                        updated |-> FALSE, stale |-> {}]]

\* After a panic the call never returns and nothing else runs.
Notify ==
    /\ stack # <<>> /\ call.name # "panic"
    /\ LET p == RevdepVec_update_all(heap, handles, stack)
       IN /\ heap' = p.heap
          /\ stack' = IF p.fatal THEN p.stack ELSE Unwind(p.heap, p.stack)
          /\ call' = [call EXCEPT !.log = Append(@, p.event),
                                  !.name = IF p.fatal THEN "panic" ELSE @]
    /\ UNCHANGED <<handles, written>>

\* The client evaluates a node it holds.
Eval ==
    \E n \in handles :
        /\ Ready
        /\ LET e == eval(heap, n, 0)
           IN heap' = e.heap
        /\ UNCHANGED <<handles, stack, call, written>>

\* The client drops its Ref to a node.
Drop ==
    \E n \in handles :
        /\ Ready /\ Len(heap) - Cardinality(handles) < MaxDrops
        /\ handles' = handles \ {n}
        /\ UNCHANGED <<heap, stack, call, written>>

\* The client takes a cache it holds out of the registry of a node it holds:
\* UpdatingNode::remove_revdep.
Remove ==
    \E n \in handles, revdep \in handles :
        /\ Ready /\ HasRevdeps(heap, n)
        /\ heap[revdep].kind \in {"cached", "lazy"}
        /\ heap' = remove_revdep(heap, handles, n, revdep)
        /\ call' = Called("remove", n, revdep)
        /\ UNCHANGED <<handles, stack, written>>

\* How many entries the registries hold, all together.
RECURSIVE Entries(_)
Entries(h) ==
    IF h = <<>> THEN 0
    ELSE Entries(Front(h)) + (IF Last(h).kind \in {"input", "cached", "lazy"}
                              THEN Len(Last(h).revdeps) ELSE 0)

\* The client puts a cache it holds into the registry of a node it holds:
\* UpdatingNode::add_revdep.
AddRevdep ==
    \E n \in handles, revdep \in handles :
        /\ Ready /\ HasRevdeps(heap, n)
        /\ heap[revdep].kind \in {"cached", "lazy"}
        /\ Entries(heap) < MaxRevdeps
        /\ heap' = add_revdep(heap, n, revdep)
        /\ call' = Called("add", n, revdep)
        /\ UNCHANGED <<handles, stack, written>>

\* The client rebinds an eager cache it holds to a node it holds.
Rebind ==
    \E c \in handles, new \in handles :
        /\ Ready /\ heap[c].kind = "cached"
        /\ TypeOf(heap, new) = TypeOf(heap, heap[c].inner_node)
        /\ heap' = CachedNode_set_inner(heap, handles, c, new).heap
        /\ stack' = Unwind(heap', <<[node |-> c, pos |-> 1]>>)
        /\ call' = Called("rebind", c, new)
        /\ UNCHANGED <<handles, written>>

\* The call has returned and the client goes on.
Return ==
    /\ call # Idle /\ stack = <<>>
    /\ call' = Idle
    /\ UNCHANGED <<heap, handles, stack, written>>

\* The client calls with at most max nodes built.
Build(max) ==
    \/ NewConst(max)
    \/ NewInput(max)
    \/ NewOp(max)
    \/ NewCached(max)
    \/ NewLazy(max)

Run ==
    \/ Set
    \/ Notify
    \/ Eval
    \/ Return

\* A client that keeps every handle: every node stays alive.
Next == Build(MaxNodes) \/ Run

Spec == Init /\ [][Next]_vars

NextWide == Build(WideNodes) \/ Run

SpecWide == Init /\ [][NextWide]_vars

\* A client that also drops handles and takes caches out of registries.
NextDrop == Build(SmallNodes) \/ Run \/ Drop \/ Remove

SpecDrop == Init /\ [][NextDrop]_vars

\* A client of inputs, operator nodes and eager caches that drops handles.
NextEager ==
    \/ NewInput(MaxNodes)
    \/ NewOp(MaxNodes)
    \/ NewCached(MaxNodes)
    \/ Set
    \/ Notify
    \/ Drop
    \/ Return

SpecEager == Init /\ [][NextEager]_vars

\* A client that also puts caches into registries itself.
NextCycle == Build(SmallNodes) \/ Run \/ AddRevdep

SpecCycle == Init /\ [][NextCycle]_vars

\* A client that builds inputs and eager caches, works on the registries
\* itself and drops handles.
NextRegistry ==
    \/ NewInput(SmallNodes)
    \/ NewCached(SmallNodes)
    \/ AddRevdep
    \/ Remove
    \/ Drop
    \/ Return

SpecRegistry == Init /\ [][NextRegistry]_vars

\* A client that also rebinds eager caches.
NextRebind == Build(MaxNodes) \/ Run \/ Rebind

SpecRebind == Init /\ [][NextRebind]_vars

----------------------------------------------------------------------------
\* What the properties below speak of.

Nodes == 1..Len(heap)

NodesOf(kinds) == {n \in Nodes : heap[n].kind \in kinds}

\* The nodes alive now.
Alive == ReachFrom(heap, handles)

\* What a node evaluates to now.
Value(n) == eval(heap, n, 0).val

\* set has returned and the client has not gone on yet.
SetReturned == call.name = "set" /\ stack = <<>>

\* The nodes a node's value is computed from, itself included.
Upstream(n) == ReachFrom(heap, {n})

\* The dependents the set in `call` has notified so far.
Notified == {call.log[i].node : i \in {j \in 1..Len(call.log) : call.log[j].updated}}

----------------------------------------------------------------------------
\* C1: whenever no propagation is in progress, and so as soon as a set
\* returns, the stored value of every live eager cache is what its inner
\* node evaluates to.
C1_EagerCoherence ==
    stack = <<>> =>
        \A c \in NodesOf({"cached"}) \cap Alive :
            heap[c].cached_value = Value(heap[c].inner_node)

\* A set has returned that went through an eager cache over an eager cache
\* of the input, and both hold the value set.
C1_Witness ==
    /\ SetReturned
    /\ call.val = MaxVal
    /\ \E b, c \in NodesOf({"cached"}) \cap Notified :
          /\ heap[b].inner_node = call.node
          /\ heap[c].inner_node = b
          /\ heap[c].cached_value = call.val

----------------------------------------------------------------------------
\* Whether the next eval of lazy cache l evaluates l's inner node.
Recomputes(l) ==
    \E i \in 1..Len(eval(heap, l, 0).trace) :
        eval(heap, l, 0).trace[i] = <<l, heap[l].inner_node>>

\* The lazy caches the client holds that are computed from the input just set.
LazyBelowSet ==
    {l \in NodesOf({"lazy"}) \cap handles : call.node \in Upstream(l)}

\* The eager caches alive that are computed from node n.
EagerAbove(n) ==
    {c \in NodesOf({"cached"}) \cap Alive : n \in Upstream(c) /\ c # n}

\* C2 as claimed: when a set on an input upstream of a lazy cache returns,
\* the next eval of the cache evaluates the inner node again and returns what
\* the inner node evaluates to.
C2_AsClaimed ==
    SetReturned =>
        \A l \in LazyBelowSet :
            /\ Recomputes(l)
            /\ eval(heap, l, 0).val = Value(heap[l].inner_node)

\* C2, amended: when a set on an input upstream of a lazy cache returns, the
\* next eval of the cache returns what the inner node evaluates to, and it
\* evaluates the inner node again unless a live eager cache is computed
\* from the lazy cache (whose update handler then evaluated it during the set).
C2_LazyCoherence ==
    SetReturned =>
        \A l \in LazyBelowSet :
            /\ eval(heap, l, 0).val = Value(heap[l].inner_node)
            /\ EagerAbove(l) = {} => Recomputes(l)

\* A set has returned that notified a lazy cache with no eager cache over
\* it, and the input holds a value other than the one its lazy cache would
\* have kept.
C2_Witness ==
    /\ SetReturned
    /\ \E l \in LazyBelowSet \cap Notified :
          /\ EagerAbove(l) = {}
          /\ heap[l].cached_value = <<>>
          /\ Value(heap[l].inner_node) = MaxVal

----------------------------------------------------------------------------
\* How many times an evaluation made the call <<from, n>>.
Calls(trace, from, n) == Count(trace, <<from, n>>)

\* C3: an eval of a populated lazy cache returns the stored value, evaluates
\* nothing else and leaves the heap as it is; an eval of a dirty one evaluates
\* the inner node exactly once and stores and returns its value, so that a
\* second eval evaluates nothing and returns the same value.
C3_LazyMemoization ==
    \A l \in NodesOf({"lazy"}) :
        LET e == eval(heap, l, 0)
            again == eval(e.heap, l, 0)
        IN IF heap[l].cached_value # <<>>
           THEN /\ e.val = heap[l].cached_value[1]
                /\ e.trace = << <<0, l>> >>
                /\ e.heap = heap
           ELSE /\ Calls(e.trace, l, heap[l].inner_node) = 1
                /\ e.heap[l].cached_value = <<e.val>>
                /\ e.val = Value(heap[l].inner_node)
                /\ again.trace = << <<0, l>> >>
                /\ again.val = e.val
                /\ again.heap = e.heap

\* A lazy cache over an operator node has been evaluated and is populated,
\* and another one is dirty.
C3_Witness ==
    \E l, m \in NodesOf({"lazy"}) :
        /\ heap[l].cached_value # <<>>
        /\ heap[heap[l].inner_node].kind = "op"
        /\ heap[m].cached_value = <<>>

----------------------------------------------------------------------------
\* C4: an input evaluates to the value of the last set on it, or to the
\* value it was built with if there was none; `written` changes with the
\* client's InputNode::new and InputNode::set only, so nothing else changes
\* what the input evaluates to.
C4_InputHoldsLastSet ==
    \A n \in NodesOf({"input"}) : eval(heap, n, 0).val = written[n]

\* An input built with one value has been set to another, caches below it
\* have been notified, and the set has returned.
C4_Witness ==
    /\ SetReturned
    /\ Notified # {}
    /\ heap[call.node].value = MaxVal
    /\ \E n \in NodesOf({"input"}) : n # call.node /\ heap[n].value = 0

----------------------------------------------------------------------------
\* C5 as claimed: no update handler run during a set reads, from an eager
\* cache, a stored value that is not what the cache's inner node evaluates to.
C5_NoStaleRead ==
    \A i \in 1..Len(call.log) : call.log[i].stale = {}

----------------------------------------------------------------------------
\* The eager caches alive that are computed from the input of the call.
EagerBelowSet ==
    {c \in NodesOf({"cached"}) \cap Alive : call.node \in Upstream(c)}

\* C6: when a rebind returns, the cache wraps the new inner node and stores
\* what it evaluates to; from then on a set notifies an eager cache only if
\* the input is among the nodes the cache's present inner node is computed
\* from, so a set on an input of the old inner node alone neither runs the
\* cache's update handler nor changes it; and a set on an input of the
\* present inner node has notified the cache when it returns and left it
\* storing what the inner node evaluates to.
C6_RebindAtomicity ==
    /\ (call.name = "rebind" /\ stack = <<>>) =>
          /\ heap[call.node].inner_node = call.val
          /\ heap[call.node].cached_value = Value(call.val)
    /\ call.name = "set" =>
          \A c \in Notified \cap NodesOf({"cached"}) : call.node \in Upstream(c)
    /\ SetReturned =>
          \A c \in EagerBelowSet :
              /\ c \in Notified
              /\ heap[c].cached_value = Value(heap[c].inner_node)

\* A cache built over one input and rebound to another still stores the
\* other's value after a set on the first, which did not notify it, gave the
\* first a different value.
C6_Witness ==
    /\ SetReturned
    /\ \E c \in NodesOf({"cached"}) :
          /\ written[c] = call.node
          /\ heap[c].inner_node # call.node
          /\ heap[heap[c].inner_node].kind = "input"
          /\ c \notin Notified
          /\ heap[c].cached_value # call.val

----------------------------------------------------------------------------
\* How many times node r occurs in the expression tree of node n, going
\* through operator nodes only.
RECURSIVE Occurrences(_, _, _)
Occurrences(h, n, r) ==
    CASE h[n].kind = "op" ->
            Occurrences(h, h[n].lhs, r) + Occurrences(h, h[n].rhs, r)
      [] h[n].kind = "const" -> 0
      [] OTHER -> IF n = r THEN 1 ELSE 0

\* The passes of the call so far, each as <<registry, dependent, depth>>.
Passes(log) == [i \in 1..Len(log) |-> <<log[i].reg, log[i].node, log[i].depth>>]

\* The passes that found the dependent dead and those that ran its handler.
Pruned == SelectSeq(call.log, LAMBDA e : ~e.updated)
Updated == SelectSeq(call.log, LAMBDA e : e.updated)

\* The entries of a registry that upgrade.
LiveOf(vec) == SelectSeq(vec, LAMBDA w : w \in Alive)

\* C7: during a set, a pass of update_all runs the dependent's update handler
\* exactly if the dependent is alive.  When the set returns, update_all has
\* made one pass for each entry the input's registry had, in their order;
\* the registry of the input and that of every dependent notified are the
\* live entries they had, in their order, and every other registry is as it
\* was.  When a remove_revdep returns, the registry is the live entries it
\* had other than the one removed, in their order, every other registry is
\* as it was, and no update handler has run.
C7_DeadPruned ==
    /\ call.name = "set" =>
          \A i \in 1..Len(call.log) :
              call.log[i].updated <=> call.log[i].node \in Alive
    /\ SetReturned =>
          /\ LET first == SelectSeq(call.log, LAMBDA e : e.depth = 1)
             IN call.before[call.node] = [i \in 1..Len(first) |-> first[i].node]
          /\ \A r \in NodesOf({"input", "cached", "lazy"}) :
                heap[r].revdeps = IF r \in {call.node} \cup Notified
                                  THEN LiveOf(call.before[r])
                                  ELSE call.before[r]
    /\ call.name = "remove" =>
          /\ call.log = <<>> /\ stack = <<>>
          /\ \A r \in NodesOf({"input", "cached", "lazy"}) :
                heap[r].revdeps =
                    IF r = call.node
                    THEN SelectSeq(LiveOf(call.before[r]), LAMBDA w : w # call.val)
                    ELSE call.before[r]

\* A set has returned whose update_all dropped the entry of a dead cache and
\* notified a live one, which stores the value set.
C7_Witness ==
    /\ SetReturned
    /\ call.val = MaxVal
    /\ Pruned # <<>>
    /\ \E c \in Notified : heap[c].kind = "cached" /\ heap[c].cached_value = MaxVal
    /\ Range(call.before[call.node]) # Range(heap[call.node].revdeps)

----------------------------------------------------------------------------
\* The passes a notify-all of r's registry makes over its live entries, entry
\* by entry from position i, each followed by the whole notify-all of the
\* dependent's own registry.
RECURSIVE DepthFirst(_, _, _, _, _)
DepthFirst(h, alive, r, i, depth) ==
    IF i > Len(h[r].revdeps) THEN <<>>
    ELSE LET d == h[r].revdeps[i]
         IN (IF d \in alive
             THEN << <<r, d, depth>> >> \o DepthFirst(h, alive, d, 1, depth + 1)
             ELSE <<>>)
            \o DepthFirst(h, alive, r, i + 1, depth)

IsPrefix(s, t) == Len(s) <= Len(t) /\ s = SubSeq(t, 1, Len(s))

\* Caches register when they are built and nodes are numbered as they are
\* built, so the entries of a registry are in the order registered exactly
\* if they are in the order of their numbers.
InOrderRegistered(vec) ==
    \A i, j \in 1..Len(vec) : i < j => vec[i] <= vec[j]

\* C8: the entries of every registry are in the order registered, also after
\* entries were pruned; the handlers a set has run so far are a prefix of the
\* depth-first walk over the live entries, each registry in its order and
\* each dependent's own registry before the next entry; when the set returns
\* they are the whole walk.
C8_NotificationOrder ==
    /\ \A r \in NodesOf({"input", "cached", "lazy"}) : InOrderRegistered(heap[r].revdeps)
    /\ call.name = "set" =>
          IsPrefix(Passes(Updated), DepthFirst(heap, Alive, call.node, 1, 1))
    /\ SetReturned =>
          Passes(Updated) = DepthFirst(heap, Alive, call.node, 1, 1)

\* A set has returned that notified a cache of the input, then a cache of
\* that cache, and only then the next cache of the input.
C8_Witness ==
    /\ SetReturned
    /\ Len(call.log) = 3
    /\ Passes(Updated) = << <<call.node, call.log[1].node, 1>>,
                            <<call.log[1].node, call.log[2].node, 2>>,
                            <<call.node, call.log[3].node, 1>> >>
    /\ call.log[1].node < call.log[3].node

----------------------------------------------------------------------------
\* C9: every cache, eager or lazy, is in the registry of a node once per
\* occurrence of that node in its inner expression reached through operator
\* nodes only, so not in the registries of the nodes beyond a node that has
\* a registry; operator nodes and constants have no registry.
C9_TransitiveRegistration ==
    /\ \A c \in NodesOf({"cached", "lazy"}) :
          \A r \in NodesOf({"input", "cached", "lazy"}) :
              Count(heap[r].revdeps, c) = Occurrences(heap, heap[c].inner_node, r)
    /\ \A n \in NodesOf({"op", "const"}) : "revdeps" \notin DOMAIN heap[n]

\* A cache over an operator node whose two children are one cache of an
\* input is twice in that cache's registry and not in the input's.
C9_Witness ==
    \E c \in NodesOf({"cached", "lazy"}) :
        LET o == heap[c].inner_node
        IN /\ heap[o].kind = "op"
           /\ heap[o].lhs = heap[o].rhs
           /\ heap[heap[o].lhs].kind \in {"cached", "lazy"}
           /\ Count(heap[heap[o].lhs].revdeps, c) = 2
           /\ heap[heap[heap[o].lhs].inner_node].kind = "input"
           /\ Count(heap[heap[heap[o].lhs].inner_node].revdeps, c) = 0

----------------------------------------------------------------------------
\* Whether the expression of node n is constants under operator nodes only.
RECURSIVE ConstOnly(_, _)
ConstOnly(h, n) ==
    CASE h[n].kind = "const" -> TRUE
      [] h[n].kind = "op" -> ConstOnly(h, h[n].lhs) /\ ConstOnly(h, h[n].rhs)
      [] OTHER -> FALSE

\* The value of such an expression, from the values its constants were
\* built with.
RECURSIVE Folded(_, _, _)
Folded(h, w, n) ==
    IF h[n].kind = "const" THEN w[n]
    ELSE ApplyOp(h[n].op, Folded(h, w, h[n].lhs), Folded(h, w, h[n].rhs))

\* C10: a constant evaluates to the value it was built with and its
\* evaluation changes nothing; forwarding a registration or a removal to it
\* changes nothing; a cache over constants only is in no registry, no set
\* visits it, and it evaluates to the value of its expression over the
\* values the constants were built with.
C10_Constants ==
    /\ \A n \in NodesOf({"const"}) :
          /\ eval(heap, n, 0).val = written[n]
          /\ eval(heap, n, 0).heap = heap
          /\ \A x \in NodesOf({"cached", "lazy"}) :
                /\ forward_add_revdep(heap, n, x) = heap
                /\ forward_remove_revdep(heap, handles, n, x) = heap
    /\ \A c \in NodesOf({"cached", "lazy"}) :
          ConstOnly(heap, heap[c].inner_node) =>
              /\ \A r \in NodesOf({"input", "cached", "lazy"}) : c \notin Range(heap[r].revdeps)
              /\ \A i \in 1..Len(call.log) : call.log[i].node # c
              /\ Value(c) = Folded(heap, written, heap[c].inner_node)

\* A set that notified a cache of its input has returned, and a cache over a
\* constant built with another value than the one set still evaluates to
\* the constant's.
C10_Witness ==
    /\ SetReturned
    /\ Notified # {}
    /\ \E c \in NodesOf({"cached", "lazy"}) :
          /\ heap[heap[c].inner_node].kind = "const"
          /\ Value(c) = MaxVal
          /\ call.val # MaxVal

----------------------------------------------------------------------------
\* Whether the expression of node n is inputs and constants under operator
\* nodes only: no cache between n and its leaves.
RECURSIVE Uncached(_, _)
Uncached(h, n) ==
    CASE h[n].kind \in {"const", "input"} -> TRUE
      [] h[n].kind = "op" -> Uncached(h, h[n].lhs) /\ Uncached(h, h[n].rhs)
      [] OTHER -> FALSE

\* The value of such an expression over what the client last gave its leaves.
RECURSIVE Unfolded(_, _, _)
Unfolded(h, w, n) ==
    IF h[n].kind = "op"
    THEN ApplyOp(h[n].op, Unfolded(h, w, h[n].lhs), Unfolded(h, w, h[n].rhs))
    ELSE w[n]

\* C11: an operator node evaluates to its operation on what its two children
\* evaluate to now and holds nothing but the two children: no stored value
\* and no registry.  It is in no registry and no pass of a set visits it; yet
\* with no cache below it, it evaluates to its expression over the values the
\* client last gave the leaves, as soon as the store of a set is done.
C11_CombinatorPure ==
    \A n \in NodesOf({"op"}) :
        /\ eval(heap, n, 0).val =
              ApplyOp(heap[n].op, Value(heap[n].lhs), Value(heap[n].rhs))
        /\ DOMAIN heap[n] = {"kind", "op", "lhs", "rhs"}
        /\ \A r \in NodesOf({"input", "cached", "lazy"}) : n \notin Range(heap[r].revdeps)
        /\ \A i \in 1..Len(call.log) : call.log[i].node # n
        /\ Uncached(heap, n) => Value(n) = Unfolded(heap, written, n)

\* A set that made no pass has returned, and an operator node over the input
\* set and another input evaluates to the sum of the value set and the
\* other's, which differs from the sum before the set.
C11_Witness ==
    /\ SetReturned
    /\ call.log = <<>>
    /\ call.val = MaxVal
    /\ \E n \in NodesOf({"op"}) :
          /\ heap[n].lhs = call.node
          /\ heap[heap[n].rhs].kind = "input"
          /\ heap[n].rhs # call.node
          /\ Value(n) = MaxVal + written[heap[n].rhs]

----------------------------------------------------------------------------
\* The registries in progress above pass i of the call: that of the node of
\* the call and, for every depth below the pass's, that of the dependent of
\* the last pass before i at that depth.
InProgress(log, i) ==
    {call.node} \cup
    {log[j].node : j \in {k \in 1..(i - 1) :
        /\ log[k].depth < log[i].depth
        /\ \A m \in (k + 1)..(i - 1) : log[m].depth > log[k].depth}}

\* Whether pass i ran the handler of a dependent whose own registry
\* traversal was in progress.
ReEnters(log, i) == log[i].updated /\ log[i].node \in InProgress(log, i)

\* C12: no registry is ever traversed by two update_all at once; the pass
\* that runs the update handler of a node whose registry traversal is in
\* progress is the last pass of the call, which ends in a panic there rather
\* than going on, and a call panics for no other reason.
C12_AliasingFatal ==
    /\ \A i, j \in 1..Len(stack) : i # j => stack[i].node # stack[j].node
    /\ \A i \in 1..Len(call.log) :
          ReEnters(call.log, i) => i = Len(call.log) /\ call.name = "panic"
    /\ call.name = "panic" =>
          /\ call.log # <<>>
          /\ ReEnters(call.log, Len(call.log))
          /\ Last(call.log).node \in Borrowed(stack)

\* A set has gone through a cache that the client put into the registry of a
\* second cache over it, and panicked when the second cache's update_all
\* came back to the first.
C12_Witness ==
    /\ call.name = "panic"
    /\ Len(call.log) = 3
    /\ Last(call.log).node = call.log[1].node
    /\ Last(call.log).reg = call.log[2].node
    /\ call.log[2].node # call.log[1].node

----------------------------------------------------------------------------
\* The live dependents a notify-all of S's registries reaches, S included.
RECURSIVE Dependents(_, _, _)
Dependents(h, alive, S) ==
    LET T == S \cup UNION {Range(h[n].revdeps) \cap alive : n \in S}
    IN IF T = S THEN S ELSE Dependents(h, alive, T)

\* Whether cache d is, directly or through other caches, its own dependent.
OnCycle(d) == d \in Dependents(heap, Alive, Range(heap[d].revdeps) \cap Alive)

\* Whether a notify-all of n's registry reaches a cycle.
CycleBelow(n) == \E d \in Dependents(heap, Alive, {n}) \ {n} : OnCycle(d)

\* C13 as claimed: a set whose notification comes back to a cache whose
\* handler is still running goes on notifying; it does not end there.
C13_AsClaimed ==
    \A i \in 1..Len(call.log) : ReEnters(call.log, i) => call.name # "panic"

\* C13, amended: add_revdep appends the entry it is given also when the entry
\* makes a cache its own dependent, without any error; a set whose
\* notification reaches such a cycle never returns: it panics, and only such
\* a set does, at a cache that is on a cycle; and the nesting of update_all
\* calls never exceeds the number of nodes.
C13_CycleFatal ==
    /\ call.name = "add" =>
          /\ heap[call.node].revdeps = Append(call.before[call.node], call.val)
          /\ stack = <<>>
    /\ SetReturned => ~CycleBelow(call.node)
    /\ call.name = "panic" =>
          /\ CycleBelow(call.node)
          /\ OnCycle(Last(call.log).node)
    /\ Len(stack) <= Len(heap)

\* The client has made a cache its own dependent, and the set that reached
\* it has panicked in the cache's second update, run from its own registry.
C13_Witness ==
    /\ call.name = "panic"
    /\ Len(call.log) = 2
    /\ call.log[2].reg = call.log[2].node
    /\ call.log[1].node = call.log[2].node
    /\ call.log[1].reg = call.node

----------------------------------------------------------------------------
\* The registries other than that of the node of the call are as the call
\* found them.
OthersAsBefore ==
    \A r \in NodesOf({"input", "cached", "lazy"}) \ {call.node} :
        heap[r].revdeps = call.before[r]

\* C14: add_revdep leaves the registry as it was with the dependent appended,
\* whether or not the dependent was in it already.  remove_revdep leaves no
\* entry of the dependent and no dead entry, and every other live entry as
\* many times as before and in the order they had; two caches that hold equal
\* values are still two dependents.  Neither touches another registry.
C14_RegistryAddRemove ==
    /\ call.name = "add" =>
          /\ heap[call.node].revdeps = Append(call.before[call.node], call.val)
          /\ Count(heap[call.node].revdeps, call.val) =
                 Count(call.before[call.node], call.val) + 1
          /\ OthersAsBefore
    /\ call.name = "remove" =>
          LET was == call.before[call.node]
              is == heap[call.node].revdeps
          IN /\ call.val \notin Range(is)
             /\ Range(is) \subseteq Alive
             /\ \A d \in (Range(was) \cap Alive) \ {call.val} :
                    Count(is, d) = Count(was, d)
             /\ is = SelectSeq(was, LAMBDA w : w \in Range(is))
             /\ OthersAsBefore

\* A remove_revdep has taken both entries of a cache out of a registry and
\* left the entry of another cache that is equal to it field by field.
C14_Witness ==
    /\ call.name = "remove"
    /\ Count(call.before[call.node], call.val) = 2
    /\ \E d \in Range(heap[call.node].revdeps) :
          d # call.val /\ heap[d] = heap[call.val]

----------------------------------------------------------------------------
\* C15 as claimed: while the dependents of a node are being notified, the
\* node holds its new value: the input the value set, an eager cache what
\* its inner node evaluates to; and no update handler run during the set
\* reads, from an eager cache its node is registered with, a stored value
\* that is not yet the new one.
C15_StoreBeforeNotify ==
    /\ \A i \in 1..Len(stack) :
          LET n == stack[i].node
          IN /\ heap[n].kind = "input" => heap[n].value = call.val
             /\ heap[n].kind = "cached" =>
                    heap[n].cached_value = Value(heap[n].inner_node)
    /\ \A i \in 1..Len(call.log) :
          \A x \in call.log[i].stale :
              call.log[i].node \notin Range(heap[x].revdeps)

----------------------------------------------------------------------------
\* The passes of the call that ran the update handler of a lazy cache.
LazyPasses ==
    {i \in 1..Len(call.log) :
        call.log[i].updated /\ heap[call.log[i].node].kind = "lazy"}

\* C16: the update handler of a lazy cache, populated or dirty, leaves it
\* dirty, evaluates no node and changes nothing else; the pass after it is
\* the first entry of the lazy cache's own registry, one level deeper, if it
\* has one; and when the set returns, every live dependent of every lazy
\* cache it notified has been notified.
C16_LazyInvalidation ==
    /\ \A l \in NodesOf({"lazy"}) :
          /\ update(heap, l).heap = [heap EXCEPT ![l].cached_value = <<>>]
          /\ update(heap, l).trace = <<>>
    /\ call.name = "set" =>
          \A i \in LazyPasses :
              LET l == call.log[i].node
              IN heap[l].revdeps # <<>> =>
                    IF i < Len(call.log)
                    THEN /\ call.log[i + 1].reg = l
                         /\ call.log[i + 1].node = heap[l].revdeps[1]
                         /\ call.log[i + 1].depth = call.log[i].depth + 1
                    ELSE stack # <<>> /\ Last(stack) = [node |-> l, pos |-> 1]
    /\ SetReturned =>
          \A l \in NodesOf({"lazy"}) \cap Notified :
              Range(heap[l].revdeps) \cap Alive \subseteq Notified

\* A set has notified a lazy cache twice in a row, through its two entries in
\* the input's registry, and both times the lazy cache over it: the second
\* time it was dirty already, and it still is.
C16_Witness ==
    /\ SetReturned
    /\ Len(call.log) = 4
    /\ LazyPasses = 1..4
    /\ call.log[1].node = call.log[3].node
    /\ call.log[2].reg = call.log[1].node
    /\ call.log[4].reg = call.log[3].node
    /\ heap[call.log[1].node].cached_value = <<>>

----------------------------------------------------------------------------
\* The heap but for the registries: the values and what the nodes wrap.
WithoutRegistries(h) ==
    [n \in 1..Len(h) |->
        IF HasRevdeps(h, n) THEN [h[n] EXCEPT !.revdeps = <<>>] ELSE h[n]]

\* Whether c has been appended to the registries of `was` once per occurrence
\* of their node in the expression of inner, and nowhere else.
Registered(was, is, inner, c) ==
    \A r \in 1..Len(was) :
        HasRevdeps(was, r) =>
            is[r].revdeps =
                was[r].revdeps \o [i \in 1..Occurrences(was, inner, r) |-> c]

\* C17: whenever the client can call a constructor, on any node it holds:
\* LazyCachedNode::new gives a dirty cache of that node with an empty
\* registry and leaves every value as it is, dirty lazy caches below it
\* included, so it has not evaluated the node, and the first eval of the new
\* cache evaluates the node and returns its value; CachedNode::new gives a
\* cache that stores what the node evaluates to and leaves the values as one
\* evaluation of the node leaves them; both have put the new cache, and
\* nothing else, into the registries that forwarding from the node reaches.
C17_Construction ==
    Ready =>
        \A inner \in handles :
            LET c == Len(heap) + 1
                lz == LazyCachedNode_new(heap, inner)
                ea == CachedNode_new(heap, inner)
                once == eval(heap, inner, c)
                first == eval(lz, c, 0)
            IN /\ Len(lz) = c
               /\ lz[c] = [kind |-> "lazy", inner_node |-> inner,
                           cached_value |-> <<>>, revdeps |-> <<>>]
               /\ SubSeq(WithoutRegistries(lz), 1, c - 1) = WithoutRegistries(heap)
               /\ Registered(heap, lz, inner, c)
               /\ Calls(first.trace, c, inner) = 1
               /\ first.val = once.val
               /\ first.heap[c].cached_value = <<once.val>>
               /\ Len(ea) = c
               /\ ea[c] = [kind |-> "cached", inner_node |-> inner,
                           cached_value |-> once.val, revdeps |-> <<>>]
               /\ SubSeq(WithoutRegistries(ea), 1, c - 1) =
                      WithoutRegistries(once.heap)
               /\ Registered(heap, ea, inner, c)

\* The node built last is a lazy cache over an operator node of an input
\* that holds the largest value; it is dirty and in the input's registry.  A
\* lazy cache built over it stays dirty and leaves it dirty, an eager cache
\* built over it populates it.
C17_Witness ==
    /\ Ready
    /\ Len(heap) < MaxNodes
    /\ \E l \in NodesOf({"lazy"}) \cap handles :
          /\ l = Len(heap)
          /\ \E a \in NodesOf({"input"}) : l \in Range(heap[a].revdeps)
          /\ heap[l].cached_value = <<>>
          /\ heap[heap[l].inner_node].kind = "op"
          /\ Value(heap[l].inner_node) >= MaxVal
          /\ LazyCachedNode_new(heap, l)[l].cached_value = <<>>
          /\ CachedNode_new(heap, l)[l].cached_value # <<>>

----------------------------------------------------------------------------
\* The nodes an evaluation went through.
Traversed(trace) == {trace[i][2] : i \in 1..Len(trace)}

\* The nodes that differ between two heaps of the same nodes.
Changed(was, is) == {m \in 1..Len(was) : is[m] # was[m]}

\* C18: in every state, an eval of any node leaves the nodes, every registry,
\* every input's value and every eager cache's stored value as they are; the
\* nodes it changes are dirty lazy caches it went through, and all it
\* changes in them is the stored value, from none to what their inner node
\* evaluates to.
C18_EvalFrame ==
    \A n \in Nodes :
        LET e == eval(heap, n, 0)
        IN /\ Len(e.heap) = Len(heap)
           /\ Registries(e.heap) = Registries(heap)
           /\ \A m \in NodesOf({"const", "input", "op", "cached"}) : e.heap[m] = heap[m]
           /\ \A m \in Changed(heap, e.heap) :
                 /\ heap[m].kind = "lazy"
                 /\ heap[m].cached_value = <<>>
                 /\ m \in Traversed(e.trace)
                 /\ e.heap[m] =
                       [heap[m] EXCEPT !.cached_value = <<Value(heap[m].inner_node)>>]

\* A set has returned that left a lazy cache over a lazy cache of the input
\* dirty, both: the eval of the upper one changes exactly these two nodes,
\* while the input's registry holds an entry.
C18_Witness ==
    /\ SetReturned
    /\ heap[call.node].revdeps # <<>>
    /\ \E m \in NodesOf({"lazy"}) :
          /\ heap[heap[m].inner_node].kind = "lazy"
          /\ heap[heap[m].inner_node].inner_node = call.node
          /\ Changed(heap, eval(heap, m, 0).heap) = {m, heap[m].inner_node}

----------------------------------------------------------------------------
\* The client that builds graphs with the constructors and runs set and eval
\* on them.
NextLive == Build(SmallNodes) \/ Run

\* The same program with the propagation of a set running to its end:
\* update_all is a loop of nested calls on the thread of the caller, so a pass
\* that can be made is made.
SpecLive == Init /\ [][NextLive]_vars /\ WF_vars(Notify)

\* C19: in graphs built with the constructors only, a set never panics; while
\* it runs its next pass is always there to make; the handlers it has run are
\* never more than the depth-first walk over the dependents has passes, and
\* the nodes it has notified are among the dependents notification reaches
\* from the input; and every set returns.
C19_Termination ==
    /\ [](call.name # "panic")
    /\ [](stack # <<>> => Last(stack).pos <= Len(heap[Last(stack).node].revdeps))
    /\ [](call.name = "set" =>
            /\ Len(call.log) <= Len(DepthFirst(heap, Alive, call.node, 1, 1))
            /\ Notified \subseteq Dependents(heap, Alive, {call.node}) \ {call.node})
    /\ (call.name = "set" ~> SetReturned)

\* A set has returned after two handler runs, both on the one cache that is
\* registered twice with the input, and each a nested update_all that
\* returned.
C19_Witness ==
    /\ SetReturned
    /\ Len(call.log) = 2
    /\ Notified = Dependents(heap, Alive, {call.node}) \ {call.node}
    /\ Cardinality(Notified) = 1
    /\ \A i \in 1..2 : call.log[i].updated /\ call.log[i].reg = call.node

----------------------------------------------------------------------------
\* The registration paths from node a to cache c: one for each occurrence of a
\* in the expression c wraps, and for each occurrence of a cache r in it one
\* for each path from a to r.  A cache wraps nodes built before it, so the
\* caches r to go through are among the nodes numbered below c.
RECURSIVE Paths(_, _, _)
RECURSIVE PathsVia(_, _, _, _)
Paths(h, a, c) == PathsVia(h, a, c, c - 1)
PathsVia(h, a, c, r) ==
    IF r = 0 THEN 0
    ELSE (CASE r = a -> Occurrences(h, h[c].inner_node, a)
            [] r # a /\ h[r].kind \in {"cached", "lazy"} ->
                  Occurrences(h, h[c].inner_node, r) * Paths(h, a, r)
            [] OTHER -> 0)
         + PathsVia(h, a, c, r - 1)

\* What node n evaluates to with every node below it up to date: its
\* expression over what the client last gave the leaves, a cache standing for
\* the node it wraps.
RECURSIVE UpToDate(_, _, _)
UpToDate(h, w, n) ==
    CASE h[n].kind = "op" ->
            ApplyOp(h[n].op, UpToDate(h, w, h[n].lhs), UpToDate(h, w, h[n].rhs))
      [] h[n].kind \in {"cached", "lazy"} -> UpToDate(h, w, h[n].inner_node)
      [] OTHER -> w[n]

\* How many times the call has run the update handler of node c.
Invocations(c) == Cardinality({i \in 1..Len(call.log) :
                                 call.log[i].updated /\ call.log[i].node = c})

\* C20: when a set returns, it has run the update handler of every cache once
\* for each registration path from the input to the cache; an eager cache it
\* has notified holds the value of its expression with every upstream node up
\* to date, and a lazy cache it has notified is dirty or holds that value.
C20_PerPath ==
    SetReturned =>
        \A c \in NodesOf({"cached", "lazy"}) :
            /\ Invocations(c) = Paths(heap, call.node, c)
            /\ Invocations(c) > 0 =>
                  /\ heap[c].kind = "cached" =>
                        heap[c].cached_value = UpToDate(heap, written, c)
                  /\ heap[c].kind = "lazy" =>
                        heap[c].cached_value \in {<<>>, <<UpToDate(heap, written, c)>>}

\* A set has returned that ran the handler of an eager cache twice: the cache
\* wraps an operator node over the input and the input, or over the input and
\* a cache of the input, and holds a value that is not the one set.
C20_Witness ==
    /\ SetReturned
    /\ \E c \in NodesOf({"cached"}) :
          /\ heap[heap[c].inner_node].kind = "op"
          /\ heap[heap[c].inner_node].lhs = call.node
          /\ Invocations(c) = 2
          /\ heap[c].cached_value = UpToDate(heap, written, c)
          /\ heap[c].cached_value # call.val

----------------------------------------------------------------------------
\* A client that builds deeper graphs out of fewer kinds of node: up to
\* DeepNodes nodes, of them MaxInputs inputs, MaxOps operator nodes and
\* MaxLazy lazy caches, no constants.
NextDeep ==
    \/ NumKind(heap, {"input"}) < MaxInputs /\ NewInput(DeepNodes)
    \/ NumKind(heap, {"op"}) < MaxOps /\ NewOp(DeepNodes)
    \/ NewCached(DeepNodes)
    \/ NumKind(heap, {"lazy"}) < MaxLazy /\ NewLazy(DeepNodes)
    \/ Run

SpecDeep == Init /\ [][NextDeep]_vars

\* C21: whenever no update_all is running, a lazy cache that holds a value
\* holds what its inner node evaluates to now.
C21_LazyFresh ==
    stack = <<>> =>
        \A l \in NodesOf({"lazy"}) :
            heap[l].cached_value # <<>> =>
                heap[l].cached_value = <<eval(heap, heap[l].inner_node, l).val>>

\* A set has returned in which the handler of an eager cache of a lazy cache
\* read, through the lazy cache, an eager cache below it that was still to
\* be notified: the lazy cache stored a value computed from it; now it holds
\* a value again.
C21_Witness ==
    /\ SetReturned
    /\ \E i \in 1..Len(call.log) :
          LET c == call.log[i].node
          IN /\ call.log[i].updated
             /\ heap[c].kind = "cached"
             /\ heap[heap[c].inner_node].kind = "lazy"
             /\ call.log[i].stale \cap Upstream(heap[c].inner_node) # {}
             /\ heap[heap[c].inner_node].cached_value # <<>>
             /\ Invocations(heap[c].inner_node) = 2

----------------------------------------------------------------------------
\* A client that builds graphs of up to MaxNodes nodes out of the kinds of
\* SpecDeep, sets inputs and drops handles: a cache the client dropped and no
\* other node holds is dead.  It reads no node itself, so a lazy cache holds
\* a value only if the constructor or the update handler of an eager cache
\* read it.
NextConsumer ==
    \/ NumKind(heap, {"input"}) < MaxInputs /\ NewInput(MaxNodes)
    \/ NumKind(heap, {"op"}) < MaxOps /\ NewOp(MaxNodes)
    \/ NewCached(MaxNodes)
    \/ NumKind(heap, {"lazy"}) < MaxLazy /\ NewLazy(MaxNodes)
    \/ Set
    \/ Notify
    \/ Return
    \/ Drop

SpecConsumer == Init /\ [][NextConsumer]_vars

\* The live eager caches that read lazy cache l through operator nodes only.
Consumers(l) ==
    {e \in NodesOf({"cached"}) \cap Alive :
        Occurrences(heap, heap[e].inner_node, l) > 0}

\* The passes of the call that ran the update handler of node n.
PassesOn(n) == {i \in 1..Len(call.log) : call.log[i].updated /\ call.log[i].node = n}

\* C22: when a set on an input upstream of a lazy cache returns and a live
\* eager cache reads the lazy cache through operator nodes, the set has
\* cleared the lazy cache, after every clearing it has run the handler of
\* such an eager cache out of the lazy cache's registry, and the lazy cache
\* holds a value, the one its inner node evaluates to.
C22_EagerConsumer ==
    SetReturned =>
        \A l \in NodesOf({"lazy"}) :
            (call.node \in Upstream(l) /\ Consumers(l) # {}) =>
                /\ PassesOn(l) # {}
                /\ \A i \in PassesOn(l) :
                      \E e \in Consumers(l) :
                          \E j \in PassesOn(e) : j > i /\ call.log[j].reg = l
                /\ heap[l].cached_value = <<eval(heap, heap[l].inner_node, l).val>>

\* A set of MaxVal has returned with a lazy cache of the input that a live
\* eager cache reads through an operator node: the set cleared the lazy
\* cache once and ran the handler of the eager cache out of the lazy cache's
\* registry, and the lazy cache holds MaxVal.
C22_Witness ==
    /\ SetReturned
    /\ call.val = MaxVal
    /\ \E l \in NodesOf({"lazy"}) :
          /\ heap[l].inner_node = call.node
          /\ heap[l].cached_value = <<MaxVal>>
          /\ Cardinality(PassesOn(l)) = 1
          /\ \E e \in Consumers(l) :
                /\ heap[heap[e].inner_node].kind = "op"
                /\ \E j \in PassesOn(e) : call.log[j].reg = l

====
